---- MODULE Spec2Model ----
(***************************************************************************)
(* Model of opencmiss/utils/zinc/finiteelement.py: helpers that create     *)
(* nodes and elements, look nodes up by name, aggregate nodal coordinates  *)
(* and transform the nodal parameters of a coordinate field.               *)
(*                                                                         *)
(* The Zinc library and the sibling modules vectorops / ZincCacheChanges   *)
(* are modelled as a small in-memory store.  Real numbers are modelled by  *)
(* integers; a division by a count is kept as the pair (vector, divisor).  *)
(* Python assertions are modelled as enabled (the interpreter's default).  *)
(***************************************************************************)
EXTENDS Integers, Sequences, FiniteSets, TLC

VARIABLES
    nodes,        \* node identifier -> [name, params]; params: <<label, version>> -> vector
    mesh,         \* dimension (1..3) -> (element identifier -> [shape, nodes])
    field,        \* the coordinate field: [ncomp, cs, fe]
    changeLevel,  \* fieldmodule change nesting: beginChange calls minus endChange calls
    call          \* record of the last call of a function of the module

vars == <<nodes, mesh, field, changeLevel, call>>

(***************************************************************************)
(* Bounds                                                                  *)
(***************************************************************************)
MaxQueryNodes == 3      \* nodes in the nodeset of the query functions
MaxPreNodes == 2        \* nodes with identifiers below MaxPreNodes may exist before creation
MaxNewNodes == 2        \* coordinates passed to one createNodes call
MaxCalls == 2           \* successive calls of the creation functions
NumTransformNodes == 2  \* nodes in the nodeset of transformCoordinates
FaultPositions == 2     \* parameter accesses of a sweep at which the library may report failure

(***************************************************************************)
(* Values                                                                  *)
(***************************************************************************)
None == "None"          \* Python None as a string value (evaluateString of an unnamed node)
NoNode == -1            \* Python None as a node result
OK == "RESULT_OK"
ERROR == "ERROR"
NOT_FOUND == "ERROR_NOT_FOUND"
RC == "RECTANGULAR_CARTESIAN"

ValueLabels ==
    <<"VALUE", "D_DS1", "D_DS2", "D2_DS1DS2", "D_DS3", "D2_DS1DS3", "D2_DS2DS3", "D3_DS1DS2DS3">>

NoCall == [op |-> "none"]

\* entries of the log of library calls a function makes
Event(ev, node, slot, result) == [ev |-> ev, node |-> node, slot |-> slot, result |-> result]
BeginChange == Event("beginChange", NoNode, <<>>, OK)
EndChange == Event("endChange", NoNode, <<>>, OK)

Range(s) == {s[i] : i \in DOMAIN s}

RECURSIVE SeqSum(_)
SeqSum(s) == IF s = <<>> THEN 0 ELSE Head(s) + SeqSum(Tail(s))

SetMin(S) == CHOOSE x \in S : \A y \in S : x <= y
SetMax(S) == CHOOSE x \in S : \A y \in S : x >= y

(***************************************************************************)
(* Library: node iteration and field evaluation                            *)
(***************************************************************************)
\* Nodeset.createNodeiterator / Nodeiterator.next: ascending identifier order
NodeIterator(ids) ==
    <<>> \o [k \in 1..Cardinality(ids) |->
                CHOOSE x \in ids : Cardinality({y \in ids : y < x}) = k - 1]

\* Field.evaluateString on the cache's node
evaluateString(ns, n) == ns[n].name

\* Field.evaluateReal on the cache's node: the stored VALUE, version 1
evaluateReal(ns, n) ==
    IF <<"VALUE", 1>> \in DOMAIN ns[n].params
    THEN [result |-> OK, values |-> ns[n].params[<<"VALUE", 1>>]]
    ELSE [result |-> ERROR, values |-> <<>>]

\* Python truthiness of a string or None
Truthy(name) == name # None /\ name # ""

\* FieldNodesetMinimum / FieldNodesetMaximum / FieldNodesetMean . evaluateReal
DefinedNodes(ns) == {n \in DOMAIN ns : evaluateReal(ns, n).result = OK}

NodesetMinimum(ns, ncomp) ==
    IF DefinedNodes(ns) = {} THEN [result |-> ERROR, values |-> <<>>]
    ELSE [result |-> OK,
          values |-> [c \in 1..ncomp |->
                        SetMin({evaluateReal(ns, n).values[c] : n \in DefinedNodes(ns)})]]

NodesetMaximum(ns, ncomp) ==
    IF DefinedNodes(ns) = {} THEN [result |-> ERROR, values |-> <<>>]
    ELSE [result |-> OK,
          values |-> [c \in 1..ncomp |->
                        SetMax({evaluateReal(ns, n).values[c] : n \in DefinedNodes(ns)})]]

NodesetMean(ns, ncomp) ==
    IF DefinedNodes(ns) = {} THEN [result |-> ERROR, values |-> <<>>]
    ELSE LET ids == NodeIterator(DefinedNodes(ns)) IN
         [result |-> OK,
          values |-> [centre |-> [c \in 1..ncomp |->
                                    SeqSum([i \in 1..Len(ids) |->
                                              evaluateReal(ns, ids[i]).values[c]])],
                      divisor |-> Len(ids)]]

(***************************************************************************)
(* findNodeWithName                                                        *)
(***************************************************************************)
\* body of "if tempName == name": a second match returns None
FindMatchLastWins(nodeWithName, node) == [stop |-> FALSE, node |-> node]

FindMatch(nodeWithName, node) ==
    IF nodeWithName # NoNode
    THEN [stop |-> TRUE, node |-> NoNode]
    ELSE [stop |-> FALSE, node |-> node]

RECURSIVE FindLoop(_, _, _, _, _)
FindLoop(ns, ids, i, name, nodeWithName) ==
    IF i > Len(ids) THEN nodeWithName
    ELSE IF evaluateString(ns, ids[i]) = name
         THEN LET m == FindMatch(nodeWithName, ids[i]) IN
              IF m.stop THEN m.node ELSE FindLoop(ns, ids, i + 1, name, m.node)
         ELSE FindLoop(ns, ids, i + 1, name, nodeWithName)

findNodeWithName(ns, name) == FindLoop(ns, NodeIterator(DOMAIN ns), 1, name, NoNode)

(***************************************************************************)
(* getNodeNameCentres                                                      *)
(***************************************************************************)
\* "nameRecords[name] = (coordinates, 1)": the record is a tuple
NewNameRecord(coordinates) == [centre |-> coordinates, count |-> 1, type |-> "tuple"]

\* "nameCentre[c] += coordinates[c]" updates the list held by the tuple, then
\* "nameRecord[1] += 1" assigns to an item of the tuple, which raises TypeError
AccumulateNameRecord(nameRecord, coordinates, ncomp) ==
    LET summed == [c \in 1..ncomp |-> nameRecord.centre[c] + coordinates[c]] IN
    IF nameRecord.type = "tuple"
    THEN [raised |-> TRUE,
          record |-> [nameRecord EXCEPT !.centre = summed]]
    ELSE [raised |-> FALSE,
          record |-> [nameRecord EXCEPT !.centre = summed, !.count = @ + 1]]

RECURSIVE NameRecordsLoop(_, _, _, _, _)
NameRecordsLoop(ns, ids, i, ncomp, nameRecords) ==
    IF i > Len(ids) THEN [status |-> "returned", records |-> nameRecords]
    ELSE LET name == evaluateString(ns, ids[i])
             ev == evaluateReal(ns, ids[i])
         IN IF Truthy(name) /\ ev.result = OK
            THEN IF name \in DOMAIN nameRecords
                 THEN LET acc == AccumulateNameRecord(nameRecords[name], ev.values, ncomp) IN
                      IF acc.raised
                      THEN [status |-> "TypeError", records |-> nameRecords]
                      ELSE NameRecordsLoop(ns, ids, i + 1, ncomp,
                                           [nameRecords EXCEPT ![name] = acc.record])
                 ELSE NameRecordsLoop(ns, ids, i + 1, ncomp,
                                      nameRecords @@ (name :> NewNameRecord(ev.values)))
            ELSE NameRecordsLoop(ns, ids, i + 1, ncomp, nameRecords)

\* "divide centre coordinates by count": centre * (1.0 / count), kept as (centre, divisor)
NameCentre(nameRecord) ==
    [centre |-> nameRecord.centre,
     divisor |-> IF nameRecord.count > 1 THEN nameRecord.count ELSE 1]

getNodeNameCentres(ns, ncomp) ==
    LET r == NameRecordsLoop(ns, NodeIterator(DOMAIN ns), 1, ncomp, <<>>) IN
    IF r.status = "returned"
    THEN [status |-> "returned",
          value |-> [name \in DOMAIN r.records |-> NameCentre(r.records[name])]]
    ELSE [status |-> r.status, value |-> <<>>]

(***************************************************************************)
(* ZincCacheChanges (context manager) and the aggregate evaluators         *)
(***************************************************************************)
AssertionsEnabled == TRUE

\* "with ZincCacheChanges(fieldmodule): body": beginChange on entry, endChange on
\* every exit of the body, an exception included
WithZincCacheChanges(bodyEvents) == <<BeginChange>> \o bodyEvents \o <<EndChange>>

\* "assert result == RESULT_OK"
AssertOKSkipped(result) == TRUE

AssertOK(result) == AssertionsEnabled => result = OK

evaluateNodesetCoordinatesRange(ns, ncomp) ==
    LET mn == NodesetMinimum(ns, ncomp)
        mx == NodesetMaximum(ns, ncomp)
    IN IF ~AssertOK(mn.result) \/ ~AssertOK(mx.result)
       THEN [status |-> "AssertionError", value |-> <<>>,
             events |-> WithZincCacheChanges(<<>>)]
       ELSE [status |-> "returned", value |-> <<mn.values, mx.values>>,
             events |-> WithZincCacheChanges(<<>>)]

evaluateNodesetMeanCoordinates(ns, ncomp) ==
    LET mean == NodesetMean(ns, ncomp) IN
    IF ~AssertOK(mean.result)
    THEN [status |-> "AssertionError", value |-> <<>>,
          events |-> WithZincCacheChanges(<<>>)]
    ELSE [status |-> "returned", value |-> mean.values,
          events |-> WithZincCacheChanges(<<>>)]

(***************************************************************************)
(* vectorops                                                               *)
(***************************************************************************)
dot(u, v) == SeqSum([i \in 1..Len(u) |-> u[i] * v[i]])

matrixvectormult(m, v) == [i \in 1..Len(m) |-> dot(m[i], v)]

add(u, v) == [i \in 1..Len(u) |-> u[i] + v[i]]

(***************************************************************************)
(* Library: nodal parameters and node templates                            *)
(***************************************************************************)
\* Nodetemplate.getValueNumberOfVersions of a fresh template: field not defined
EmptyTemplate == [l \in Range(ValueLabels) |-> 0]

NodeVersions(ns, n, label) == Cardinality({s \in DOMAIN ns[n].params : s[1] = label})

\* Nodetemplate.defineFieldFromNode: the template takes the field's definition at the
\* node. When the field is not defined at the node the call fails, and the library
\* either keeps the template's previous definition (staleKept) or leaves it undefined.
defineFieldFromNode(template, ns, n, staleKept) ==
    IF DOMAIN ns[n].params # {}
    THEN [l \in Range(ValueLabels) |-> NodeVersions(ns, n, l)]
    ELSE IF staleKept THEN template ELSE EmptyTemplate

\* FieldFiniteElement.getNodeParameters(cache, -1, derivative, version, ncomp)
getNodeParameters(ns, n, slot, fault) ==
    IF slot \notin DOMAIN ns[n].params THEN [result |-> NOT_FOUND, values |-> <<>>]
    ELSE IF fault THEN [result |-> ERROR, values |-> <<>>]
    ELSE [result |-> OK, values |-> ns[n].params[slot]]

\* FieldFiniteElement.setNodeParameters(cache, -1, derivative, version, values)
setNodeParameters(ns, n, slot, values, fault) ==
    IF slot \notin DOMAIN ns[n].params THEN [result |-> NOT_FOUND, ns |-> ns]
    ELSE IF fault THEN [result |-> ERROR, ns |-> ns]
    ELSE [result |-> OK, ns |-> [ns EXCEPT ![n].params[slot] = values]]

(***************************************************************************)
(* transformCoordinates                                                    *)
(***************************************************************************)
\* the checks before "success = True"
ValidArgumentsAnyCoordinateSystem(f, rotationScale, offset) ==
    /\ f.ncomp = 2 \/ f.ncomp = 3
    /\ Len(rotationScale) = f.ncomp
    /\ Len(offset) = f.ncomp
    /\ \A i \in 1..Len(rotationScale) : Len(rotationScale[i]) = f.ncomp
    /\ f.fe

ValidArguments(f, rotationScale, offset) ==
    /\ f.ncomp = 2 \/ f.ncomp = 3
    /\ Len(rotationScale) = f.ncomp
    /\ Len(offset) = f.ncomp
    /\ \A i \in 1..Len(rotationScale) : Len(rotationScale[i]) = f.ncomp
    /\ f.cs = RC
    /\ f.fe

\* "newValues = matrixvectormult(...)" and, for VALUE, "newValues = add(newValues, offset)"
TransformValuesOffsetAlways(rotationScale, offset, derivative, values) ==
    add(matrixvectormult(rotationScale, values), offset)

TransformValues(rotationScale, offset, derivative, values) ==
    IF derivative = "VALUE"
    THEN add(matrixvectormult(rotationScale, values), offset)
    ELSE matrixvectormult(rotationScale, values)

\* "if result != RESULT_OK: success = False" after getNodeParameters
ReadFailedIgnored(st) == st

ReadFailed(st) == [st EXCEPT !.success = FALSE]

\* the loops have no break: only an exception ends the sweep early
SweepStopsOnFailure(st) == st.raised \/ ~st.success

SweepStops(st) == st.raised

\* body of "for v in range(versions)". The arithmetic on a non-numeric entry of
\* rotationScale or offset raises TypeError.
SweepParameter(st, n, slot, a) ==
    IF SweepStops(st) THEN st
    ELSE LET idx == st.pos + 1
             read == getNodeParameters(st.ns, n, slot, idx \in a.readFail)
             got == [st EXCEPT !.pos = idx,
                               !.events = Append(@, Event("get", n, slot, read.result))]
         IN IF read.result # OK THEN ReadFailed(got)
            ELSE IF ~a.numeric THEN [got EXCEPT !.raised = TRUE]
            ELSE LET newValues == TransformValues(a.rotationScale, a.offset, slot[1],
                                                  read.values)
                     wr == setNodeParameters(st.ns, n, slot, newValues, idx \in a.writeFail)
                 IN [got EXCEPT !.ns = wr.ns,
                                !.success = @ /\ wr.result = OK,
                                !.events = Append(@, Event("set", n, slot, wr.result))]

\* "for derivative in [...]: versions = ...; for v in range(versions)" as one sequence
RECURSIVE TemplateSlots(_, _)
TemplateSlots(template, k) ==
    IF k > Len(ValueLabels) THEN <<>>
    ELSE [v \in 1..template[ValueLabels[k]] |-> <<ValueLabels[k], v>>]
             \o TemplateSlots(template, k + 1)

RECURSIVE SweepSlots(_, _, _, _, _)
SweepSlots(st, n, slots, i, a) ==
    IF i > Len(slots) THEN st
    ELSE SweepSlots(SweepParameter(st, n, slots[i], a), n, slots, i + 1, a)

\* "while node.isValid()"
RECURSIVE SweepNodes(_, _, _, _)
SweepNodes(st, ids, i, a) ==
    IF i > Len(ids) THEN st
    ELSE LET template == defineFieldFromNode(st.template, st.ns, ids[i], a.staleKept)
             st1 == [st EXCEPT !.template = template]
         IN SweepNodes(SweepSlots(st1, ids[i], TemplateSlots(template, 1), 1, a),
                       ids, i + 1, a)

transformCoordinates(ns, f, a) ==
    IF ~ValidArguments(f, a.rotationScale, a.offset)
    THEN [status |-> "returned", ret |-> "False", ns |-> ns, events |-> <<>>]
    ELSE LET st0 == [ns |-> ns, template |-> EmptyTemplate, success |-> TRUE,
                     events |-> <<BeginChange>>, pos |-> 0, raised |-> FALSE]
             st == SweepNodes(st0, NodeIterator(DOMAIN ns), 1, a)
         IN IF st.raised
            THEN [status |-> "TypeError", ret |-> "none", ns |-> st.ns,
                  events |-> st.events]
            ELSE [status |-> "returned",
                  ret |-> IF st.success THEN "True" ELSE "False",
                  ns |-> st.ns,
                  events |-> Append(st.events, EndChange)]

(***************************************************************************)
(* Library: node and element creation                                      *)
(***************************************************************************)
\* identifier -1: the smallest unused identifier >= 0
NextIdentifier(used) == SetMin({i \in 0..Cardinality(used) : i \notin used})

\* Nodeset.createNode(-1, node_template): the template defines the field with VALUE,
\* version 1, initialised to zero
createNode(ns, f) ==
    LET id == NextIdentifier(DOMAIN ns) IN
    [id |-> id,
     ns |-> ns @@ (id :> [name |-> None,
                          params |-> (<<"VALUE", 1>> :> [c \in 1..f.ncomp |-> 0])])]

\* Field.assignReal on the cache's node
assignReal(ns, n, f, values) ==
    IF Len(values) = f.ncomp /\ <<"VALUE", 1>> \in DOMAIN ns[n].params
    THEN [ns EXCEPT ![n].params[<<"VALUE", 1>>] = values]
    ELSE ns

\* Mesh.createElement(-1, element_template)
createElement(m, shape) ==
    LET id == NextIdentifier(DOMAIN m) IN
    [id |-> id, mesh |-> m @@ (id :> [shape |-> shape, nodes |-> <<>>])]

\* number of local nodes of the linear basis of a shape
ShapeNodes(shape) ==
    CASE shape = "LINE" -> 2
      [] shape = "TRIANGLE" -> 3
      [] shape = "SQUARE" -> 4
      [] shape = "CUBE" -> 8

\* Element.setNodesByIdentifier(eft, node_identifiers)
setNodesByIdentifier(m, ns, e, identifiers) ==
    IF Len(identifiers) = ShapeNodes(m[e].shape) /\ Range(identifiers) \subseteq DOMAIN ns
    THEN [m EXCEPT ![e].nodes = identifiers]
    ELSE m

\* local nodes of the faces of a shape, xi1 varying fastest
FaceLocalNodes(shape) ==
    CASE shape = "CUBE" -> << <<1, 3, 5, 7>>, <<2, 4, 6, 8>>, <<1, 2, 5, 6>>,
                              <<3, 4, 7, 8>>, <<1, 2, 3, 4>>, <<5, 6, 7, 8>> >>
      [] shape = "SQUARE" -> << <<1, 3>>, <<2, 4>>, <<1, 2>>, <<3, 4>> >>
      [] shape = "TRIANGLE" -> << <<1, 2>>, <<1, 3>>, <<2, 3>> >>
      [] shape = "LINE" -> <<>>

FaceShape(shape) == IF shape = "CUBE" THEN "SQUARE" ELSE "LINE"

\* the face elements of the elements of a mesh, in element and face order
ElementFaces(m) ==
    LET ids == NodeIterator(DOMAIN m)
        width == Len(FaceLocalNodes("CUBE"))
    IN <<>> \o [j \in 1..(Len(ids) * width) |->
          LET element == m[ids[((j - 1) \div width) + 1]]
              k == ((j - 1) % width) + 1
          IN IF element.nodes = <<>> \/ k > Len(FaceLocalNodes(element.shape))
             THEN [shape |-> "NONE", nodes |-> <<>>]
             ELSE [shape |-> FaceShape(element.shape),
                   nodes |-> [i \in 1..Len(FaceLocalNodes(element.shape)[k]) |->
                                element.nodes[FaceLocalNodes(element.shape)[k][i]]]]]

\* every face that is not yet an element of the face mesh (an element on the same nodes)
\* is added to it under the next unused identifier
DefineFaces(faceMesh, m) ==
    LET faces == ElementFaces(m)
        fresh == {j \in 1..Len(faces) :
                    /\ faces[j].shape # "NONE"
                    /\ \A e \in DOMAIN faceMesh :
                         Range(faceMesh[e].nodes) # Range(faces[j].nodes)
                    /\ \A h \in 1..(j - 1) : Range(faces[h].nodes) # Range(faces[j].nodes)}
        freshSeq == NodeIterator(fresh)
        freeSeq == NodeIterator({i \in 0..(Cardinality(DOMAIN faceMesh) + Len(freshSeq)) :
                                   i \notin DOMAIN faceMesh})
    IN faceMesh @@ [id \in {freeSeq[k] : k \in 1..Len(freshSeq)} |->
                      faces[freshSeq[CHOOSE k \in 1..Len(freshSeq) : freeSeq[k] = id]]]

\* Fieldmodule.defineAllFaces: faces of the 3-D elements, then lines of the 2-D elements
defineAllFaces(ms) ==
    LET m2 == DefineFaces(ms[2], ms[3])
        m1 == DefineFaces(ms[1], m2)
    IN [ms EXCEPT ![2] = m2, ![1] = m1]

(***************************************************************************)
(* createNodes, createSquareElement, createCubeElement                     *)
(***************************************************************************)
\* body of "for node_coordinate in node_coordinate_set": createNode, setNode, assignReal
CreateNodeUnassigned(ns, f, node_coordinate) == createNode(ns, f)

CreateNodeWithCoordinates(ns, f, node_coordinate) ==
    LET made == createNode(ns, f) IN
    [id |-> made.id, ns |-> assignReal(made.ns, made.id, f, node_coordinate)]

\* "node_identifiers.append(node.getIdentifier())"
PrependIdentifier(node_identifiers, id) == <<id>> \o node_identifiers

AppendIdentifier(node_identifiers, id) == Append(node_identifiers, id)

RECURSIVE CreateNodesLoop(_, _, _, _, _)
CreateNodesLoop(ns, f, node_coordinate_set, i, node_identifiers) ==
    IF i > Len(node_coordinate_set) THEN [ns |-> ns, node_identifiers |-> node_identifiers]
    ELSE LET made == CreateNodeWithCoordinates(ns, f, node_coordinate_set[i]) IN
         CreateNodesLoop(made.ns, f, node_coordinate_set, i + 1,
                         AppendIdentifier(node_identifiers, made.id))

createNodes(ns, f, node_coordinate_set) ==
    IF AssertionsEnabled /\ ~f.fe
    THEN [status |-> "AssertionError", ns |-> ns, events |-> <<>>]
    ELSE [status |-> "returned",
          ns |-> CreateNodesLoop(ns, f, node_coordinate_set, 1, <<>>).ns,
          events |-> WithZincCacheChanges(<<>>)]

\* createSquareElement (shape SQUARE, mesh of dimension 2) and createCubeElement
\* (shape CUBE, mesh of dimension 3): the two bodies differ in these constants only
createShapeElement(ns, ms, f, node_coordinate_set, shape, dimension) ==
    IF AssertionsEnabled /\ (~f.fe \/ Len(node_coordinate_set) # ShapeNodes(shape))
    THEN [status |-> "AssertionError", ns |-> ns, mesh |-> ms, events |-> <<>>]
    ELSE LET made == CreateNodesLoop(ns, f, node_coordinate_set, 1, <<>>)
             element == createElement(ms[dimension], shape)
             bound == setNodesByIdentifier(element.mesh, made.ns, element.id,
                                           made.node_identifiers)
         IN [status |-> "returned",
             ns |-> made.ns,
             mesh |-> defineAllFaces([ms EXCEPT ![dimension] = bound]),
             events |-> WithZincCacheChanges(<<>>)]

createSquareElement(ns, ms, f, node_coordinate_set) ==
    createShapeElement(ns, ms, f, node_coordinate_set, "SQUARE", 2)

createCubeElement(ns, ms, f, node_coordinate_set) ==
    createShapeElement(ns, ms, f, node_coordinate_set, "CUBE", 3)

(***************************************************************************)
(* Specification of the query functions                                    *)
(***************************************************************************)
QueryNames == {"A", "B", None}
QueryCoordinates == {<<0, 0>>, <<2, 0>>, <<5, 5>>}
SearchNames == {"A", "B"}

NoMesh == [d \in 1..3 |-> <<>>]

QueryParams == {<<>>} \cup {(<<"VALUE", 1>> :> x) : x \in QueryCoordinates}

InitQuery ==
    /\ \E k \in 0..MaxQueryNodes :
         nodes \in [1..k -> [name : QueryNames, params : QueryParams]]
    /\ mesh = NoMesh
    /\ field = [ncomp |-> 2, cs |-> RC, fe |-> TRUE]
    /\ changeLevel = 0
    /\ call = NoCall

FindNodeWithName ==
    /\ call.op = "none"
    /\ \E name \in SearchNames :
         call' = [op |-> "findNodeWithName", name |-> name,
                  node |-> findNodeWithName(nodes, name)]
    /\ UNCHANGED <<nodes, mesh, field, changeLevel>>

GetNodeNameCentres ==
    /\ call.op = "none"
    /\ LET r == getNodeNameCentres(nodes, field.ncomp) IN
         call' = [op |-> "getNodeNameCentres", status |-> r.status, value |-> r.value]
    /\ UNCHANGED <<nodes, mesh, field, changeLevel>>

EvaluateNodesetCoordinatesRange ==
    /\ call.op = "none"
    /\ LET r == evaluateNodesetCoordinatesRange(nodes, field.ncomp) IN
         call' = [op |-> "evaluateNodesetCoordinatesRange", status |-> r.status,
                  value |-> r.value, events |-> r.events]
    /\ UNCHANGED <<nodes, mesh, field, changeLevel>>

EvaluateNodesetMeanCoordinates ==
    /\ call.op = "none"
    /\ LET r == evaluateNodesetMeanCoordinates(nodes, field.ncomp) IN
         call' = [op |-> "evaluateNodesetMeanCoordinates", status |-> r.status,
                  value |-> r.value, events |-> r.events]
    /\ UNCHANGED <<nodes, mesh, field, changeLevel>>

NextQuery ==
    \/ FindNodeWithName
    \/ GetNodeNameCentres
    \/ EvaluateNodesetCoordinatesRange
    \/ EvaluateNodesetMeanCoordinates

SpecQuery == InitQuery /\ [][NextQuery]_vars

(***************************************************************************)
(* Claims about the query functions                                        *)
(***************************************************************************)
NodesNamed(name) == {n \in DOMAIN nodes : nodes[n].name = name}

NamedGroup(name) == {n \in DefinedNodes(nodes) : nodes[n].name = name}

CarriedNames == {nodes[n].name : n \in {m \in DefinedNodes(nodes) : Truthy(nodes[m].name)}}

CoordinateSum(group, c) ==
    LET ids == NodeIterator(group) IN
    SeqSum([i \in 1..Len(ids) |-> nodes[ids[i]].params[<<"VALUE", 1>>][c]])

\* C1: getNodeNameCentres completes and returns, for every name carried by a node,
\* the component-wise mean of the coordinates of all nodes with that name, also when
\* two or more nodes share a name.
C1_NameCentresAreMeans ==
    call.op = "getNodeNameCentres" =>
        /\ call.status = "returned"
        /\ DOMAIN call.value = CarriedNames
        /\ \A name \in CarriedNames : \A c \in 1..field.ncomp :
             call.value[name].centre[c] * Cardinality(NamedGroup(name))
                = CoordinateSum(NamedGroup(name), c) * call.value[name].divisor

\* C7: findNodeWithName returns the node when exactly one node has the name, and None
\* when no node or more than one node has it, wherever the matching nodes are.
C7_FindUnique ==
    call.op = "findNodeWithName" =>
        IF Cardinality(NodesNamed(call.name)) = 1
        THEN call.node \in NodesNamed(call.name)
        ELSE call.node = NoNode

C7_Witness ==
    /\ call.op = "findNodeWithName"
    /\ NodesNamed(call.name) = {1, 3}
    /\ call.node = NoNode

\* C8 as stated: on an empty nodeset the aggregate evaluators return an (all-undefined)
\* result to the caller and do not raise.
C8_EmptyReturnsUndefined ==
    (/\ call.op \in {"evaluateNodesetCoordinatesRange", "evaluateNodesetMeanCoordinates"}
     /\ DOMAIN nodes = {})
        => call.status = "returned"

\* C8 amended: on an empty nodeset the library evaluation reports failure and the
\* evaluators raise AssertionError; they return a result only when some node has
\* coordinates, and the change scope is closed on both paths.
C8_EmptyRaises ==
    call.op \in {"evaluateNodesetCoordinatesRange", "evaluateNodesetMeanCoordinates"} =>
        /\ DOMAIN nodes = {} => call.status = "AssertionError"
        /\ call.status = "returned" => DefinedNodes(nodes) # {}
        /\ call.events = <<BeginChange, EndChange>>

C8_Witness ==
    /\ call.op = "evaluateNodesetMeanCoordinates"
    /\ DOMAIN nodes = {}
    /\ call.status = "AssertionError"

(***************************************************************************)
(* Specification of transformCoordinates                                   *)
(***************************************************************************)
Identity(r, c) == [i \in 1..r |-> [j \in 1..c |-> IF i = j THEN 1 ELSE 0]]

\* quarter turn about the third axis
QuarterTurn(r, c) ==
    [i \in 1..r |-> [j \in 1..c |->
        IF i = 1 /\ j = 2 THEN -1
        ELSE IF i = 2 /\ j = 1 THEN 1
        ELSE IF i = j /\ i > 2 THEN 1 ELSE 0]]

Ragged == << <<1, 0>>, <<0, 1, 0>> >>

Matrices ==
    {Identity(r, c) : r \in 2..3, c \in 2..3}
        \cup {QuarterTurn(r, c) : r \in 2..3, c \in 2..3}
        \cup {Identity(4, 4), Ragged}

Offsets ==
    {[i \in 1..n |-> 0] : n \in 2..3}
        \cup {[i \in 1..n |-> IF i = 1 THEN 1 ELSE 0] : n \in 2..4}

\* parameters stored at a node: none, a value, or two versions of the value with derivatives
NodeLayouts ==
    { {},
      {<<"VALUE", 1>>},
      {<<"VALUE", 1>>, <<"VALUE", 2>>, <<"D_DS1", 1>>, <<"D3_DS1DS2DS3", 1>>} }

LabelIndex(label) == CHOOSE k \in 1..Len(ValueLabels) : ValueLabels[k] = label

InitialParameters(n, layout, ncomp) ==
    [s \in layout |-> [c \in 1..ncomp |-> n + 2 * c + LabelIndex(s[1]) + 3 * s[2]]]

InitTransform ==
    /\ \E ncomp \in 2..4, cs \in {RC, "FIBRE"}, fe \in BOOLEAN :
         /\ field = [ncomp |-> ncomp, cs |-> cs, fe |-> fe]
         /\ \E layout \in [1..NumTransformNodes -> NodeLayouts] :
              /\ ~fe => \A n \in 1..NumTransformNodes : layout[n] = {}
              /\ nodes = [n \in 1..NumTransformNodes |->
                            [name |-> None,
                             params |-> InitialParameters(n, layout[n], ncomp)]]
    /\ mesh = NoMesh
    /\ changeLevel = 0
    /\ call = NoCall

Count(events, ev) == Cardinality({i \in 1..Len(events) : events[i].ev = ev})

TransformCoordinates ==
    /\ call.op = "none"
    /\ \E rotationScale \in Matrices, offset \in Offsets, numeric \in BOOLEAN,
          readFail \in SUBSET (1..FaultPositions), staleKept \in BOOLEAN :
       \* a write is attempted only where the read succeeded
       \E writeFail \in SUBSET ((1..FaultPositions) \ readFail) :
         LET a == [rotationScale |-> rotationScale, offset |-> offset, numeric |-> numeric,
                   readFail |-> readFail, writeFail |-> writeFail, staleKept |-> staleKept]
             r == transformCoordinates(nodes, field, a)
         IN /\ nodes' = r.ns
            /\ changeLevel' = changeLevel + Count(r.events, "beginChange")
                                          - Count(r.events, "endChange")
            /\ call' = [op |-> "transformCoordinates", args |-> a, status |-> r.status,
                        ret |-> r.ret, events |-> r.events, pre |-> nodes]
    /\ UNCHANGED <<mesh, field>>

NextTransform == TransformCoordinates

SpecTransform == InitTransform /\ [][NextTransform]_vars

(***************************************************************************)
(* Claims about transformCoordinates                                       *)
(***************************************************************************)
IsTransform == call.op = "transformCoordinates"

\* some validation check of lines 245-262 fails for the call's arguments
InvalidCall ==
    \/ field.ncomp \notin {2, 3}
    \/ Len(call.args.rotationScale) # field.ncomp
    \/ \E i \in 1..Len(call.args.rotationScale) : Len(call.args.rotationScale[i]) # field.ncomp
    \/ Len(call.args.offset) # field.ncomp
    \/ field.cs # RC
    \/ ~field.fe

LoggedAt(ev, n, slot) == {i \in 1..Len(call.events) :
                            /\ call.events[i].ev = ev
                            /\ call.events[i].node = n
                            /\ call.events[i].slot = slot}

Visited(n, slot) == LoggedAt("get", n, slot) # {}

Written(n, slot) == \E i \in LoggedAt("set", n, slot) : call.events[i].result = OK

Failures == {i \in 1..Len(call.events) : call.events[i].result # OK}

Expected(n, slot) ==
    LET old == call.pre[n].params[slot]
        turned == matrixvectormult(call.args.rotationScale, old)
    IN IF slot[1] = "VALUE" THEN add(turned, call.args.offset) ELSE turned

\* C2: when a validation check fails the call returns False and every nodal parameter
\* of every node is as before the call.
C2_InvalidLeavesParameters ==
    (IsTransform /\ InvalidCall) =>
        /\ call.status = "returned"
        /\ call.ret = "False"
        /\ nodes = call.pre
        /\ call.events = <<>>

C2_Witness ==
    /\ IsTransform
    /\ field.ncomp = 3 /\ field.fe /\ field.cs # RC
    /\ call.args.rotationScale = QuarterTurn(3, 3)
    /\ call.args.offset = <<1, 0, 0>>
    /\ \E n \in DOMAIN nodes : DOMAIN nodes[n].params # {}
    /\ call.ret = "False"
    /\ nodes = call.pre

\* C3: after a call that passes validation, every stored (node, derivative, version)
\* that was read and written holds rotationScale times its old values, plus offset for
\* VALUE only; every other one holds its old values; when the call returns True every
\* stored one was written.
C3_ParametersTransformed ==
    (IsTransform /\ ~InvalidCall) =>
        /\ \A n \in DOMAIN call.pre : DOMAIN nodes[n].params = DOMAIN call.pre[n].params
        /\ \A n \in DOMAIN call.pre : \A slot \in DOMAIN call.pre[n].params :
             nodes[n].params[slot] = IF Written(n, slot) THEN Expected(n, slot)
                                     ELSE call.pre[n].params[slot]
        /\ call.ret = "True" =>
             \A n \in DOMAIN call.pre : \A slot \in DOMAIN call.pre[n].params :
                Written(n, slot)

C3_Witness ==
    /\ IsTransform
    /\ call.ret = "True"
    /\ call.args.rotationScale = Identity(3, 3)
    /\ call.args.offset = <<1, 0, 0>>
    /\ \E n \in DOMAIN nodes :
         /\ <<"D_DS1", 1>> \in DOMAIN nodes[n].params
         /\ nodes[n].params[<<"D_DS1", 1>>] = call.pre[n].params[<<"D_DS1", 1>>]
         /\ nodes[n].params[<<"VALUE", 2>>]
              = add(call.pre[n].params[<<"VALUE", 2>>], <<1, 0, 0>>)

\* C4 as stated: a read that reports the parameters undefined is skipped and is not an
\* error: a sweep whose only failures are such reads returns True.
C4_UndefinedReadIsNoError ==
    (/\ IsTransform
     /\ call.status = "returned"
     /\ ~InvalidCall
     /\ \A i \in Failures : call.events[i].ev = "get" /\ call.events[i].result = NOT_FOUND)
        => call.ret = "True"

\* C4 amended: a read that reports failure (undefined included) is skipped without a
\* write, and it is recorded: the call returns False.
C4_FailedReadSkippedAndRecorded ==
    (IsTransform /\ call.status = "returned") =>
        \A i \in Failures :
            call.events[i].ev = "get" =>
                /\ LoggedAt("set", call.events[i].node, call.events[i].slot) = {}
                /\ call.events[i].slot \in DOMAIN call.pre[call.events[i].node].params =>
                     nodes[call.events[i].node].params[call.events[i].slot]
                        = call.pre[call.events[i].node].params[call.events[i].slot]
                /\ call.ret = "False"

C4_Witness ==
    /\ IsTransform
    /\ call.status = "returned"
    /\ call.ret = "False"
    /\ \A i \in Failures : call.events[i].ev = "get" /\ call.events[i].result = NOT_FOUND
    /\ Failures # {}
    /\ \E n \in DOMAIN nodes : \E slot \in DOMAIN nodes[n].params : Written(n, slot)

\* C5: a read or write failure does not abort the sweep: every stored parameter of every
\* node is still visited, and written when its read succeeds; the call returns False
\* exactly when some read or write failed.
C5_SweepContinues ==
    (IsTransform /\ ~InvalidCall /\ call.status = "returned") =>
        /\ \A n \in DOMAIN call.pre : \A slot \in DOMAIN call.pre[n].params :
             /\ Visited(n, slot)
             /\ (\A i \in LoggedAt("get", n, slot) : call.events[i].result = OK)
                  => LoggedAt("set", n, slot) # {}
        /\ call.ret = "False" <=> Failures # {}
        /\ call.ret \in {"True", "False"}

C5_Witness ==
    /\ IsTransform
    /\ call.status = "returned"
    /\ call.ret = "False"
    /\ Len(call.events) > 2
    /\ call.events[2].ev = "get" /\ call.events[2].result = ERROR
    /\ \E i \in Failures : call.events[i].ev = "set"
    /\ Written(NumTransformNodes, <<"D3_DS1DS2DS3", 1>>)

\* C6: on every exit path the beginChange calls equal the endChange calls and every
\* parameter write lies between a beginChange and its endChange.
C6_ChangeScopeBalanced ==
    IsTransform =>
        /\ Count(call.events, "beginChange") = Count(call.events, "endChange")
        /\ changeLevel = 0
        /\ \A i \in 1..Len(call.events) :
             call.events[i].ev = "set" =>
                /\ \E b \in 1..(i - 1) : call.events[b].ev = "beginChange"
                /\ \E e \in (i + 1)..Len(call.events) : call.events[e].ev = "endChange"

(***************************************************************************)
(* Specification of the creation functions                                 *)
(***************************************************************************)
\* corner i of a unit cell placed at k, xi1 varying fastest
Corner(k, i) == <<k + ((i - 1) % 2), k + (((i - 1) \div 2) % 2), k + ((i - 1) \div 4)>>

CornerSet(k, count) == [i \in 1..count |-> Corner(k, i)]

NodeCoordinates == {Corner(1, 2), Corner(2, 7)}

NodeCoordinateSets ==
    UNION {[1..n -> NodeCoordinates] : n \in 0..MaxNewNodes}

SquareCoordinateSets == {CornerSet(k, 4) : k \in 1..2} \cup {CornerSet(1, 3)}

CubeCoordinateSets == {CornerSet(2, 8), CornerSet(1, 4)}

InitCreate ==
    /\ field = [ncomp |-> 3, cs |-> RC, fe |-> TRUE]
    /\ \E ids \in SUBSET (0..(MaxPreNodes - 1)) :
         nodes = [n \in ids |-> [name |-> None,
                                 params |-> (<<"VALUE", 1>> :> <<0, 0, 0>>)]]
    /\ mesh = NoMesh
    /\ changeLevel = 0
    /\ call = [op |-> "none", seq |-> 0]

CanCreate == "seq" \in DOMAIN call /\ call.seq < MaxCalls

CreateNodes ==
    /\ CanCreate
    /\ \E node_coordinate_set \in NodeCoordinateSets :
         LET r == createNodes(nodes, field, node_coordinate_set) IN
         /\ nodes' = r.ns
         /\ call' = [op |-> "createNodes", seq |-> call.seq + 1,
                     coordinates |-> node_coordinate_set, status |-> r.status,
                     events |-> r.events, pre |-> nodes, preMesh |-> mesh]
    /\ UNCHANGED <<mesh, field, changeLevel>>

CreateSquareElement ==
    /\ CanCreate
    /\ \E node_coordinate_set \in SquareCoordinateSets :
         LET r == createSquareElement(nodes, mesh, field, node_coordinate_set) IN
         /\ nodes' = r.ns
         /\ mesh' = r.mesh
         /\ call' = [op |-> "createSquareElement", seq |-> call.seq + 1,
                     coordinates |-> node_coordinate_set, status |-> r.status,
                     events |-> r.events, pre |-> nodes, preMesh |-> mesh]
    /\ UNCHANGED <<field, changeLevel>>

CreateCubeElement ==
    /\ CanCreate
    /\ \E node_coordinate_set \in CubeCoordinateSets :
         LET r == createCubeElement(nodes, mesh, field, node_coordinate_set) IN
         /\ nodes' = r.ns
         /\ mesh' = r.mesh
         /\ call' = [op |-> "createCubeElement", seq |-> call.seq + 1,
                     coordinates |-> node_coordinate_set, status |-> r.status,
                     events |-> r.events, pre |-> nodes, preMesh |-> mesh]
    /\ UNCHANGED <<field, changeLevel>>

NextCreate ==
    \/ CreateNodes
    \/ CreateSquareElement
    \/ CreateCubeElement

SpecCreate == InitCreate /\ [][NextCreate]_vars

(***************************************************************************)
(* Claims about the creation functions                                     *)
(***************************************************************************)
NewNodes == DOMAIN nodes \ DOMAIN call.pre

CallDimension == IF call.op = "createCubeElement" THEN 3 ELSE 2

NewElements == DOMAIN mesh[CallDimension] \ DOMAIN call.preMesh[CallDimension]

\* C9: createNodes with N coordinates on an empty nodeset creates exactly N nodes with
\* identifiers 0..N-1 in input order, the i-th holding the i-th coordinate.
C9_CreateNodesFromEmpty ==
    (call.op = "createNodes" /\ DOMAIN call.pre = {}) =>
        /\ call.status = "returned"
        /\ DOMAIN nodes = 0..(Len(call.coordinates) - 1)
        /\ \A i \in 1..Len(call.coordinates) :
             evaluateReal(nodes, i - 1) = [result |-> OK, values |-> call.coordinates[i]]

C9_Witness ==
    /\ call.op = "createNodes"
    /\ DOMAIN call.pre = {}
    /\ call.coordinates = <<Corner(2, 7), Corner(1, 2)>>
    /\ DOMAIN nodes = {0, 1}
    /\ nodes[0].params[<<"VALUE", 1>>] = Corner(2, 7)

\* C10: createSquareElement (4 coordinates) and createCubeElement (8 coordinates) add
\* exactly that many nodes and exactly one element to the mesh, whose local node i is
\* the new node holding the i-th coordinate, whatever nodes exist already.
C10_ElementBoundToNewNodes ==
    (/\ call.op \in {"createSquareElement", "createCubeElement"}
     /\ Len(call.coordinates) = IF call.op = "createCubeElement" THEN 8 ELSE 4) =>
        /\ call.status = "returned"
        /\ \A n \in DOMAIN call.pre : n \in DOMAIN nodes /\ nodes[n] = call.pre[n]
        /\ Cardinality(NewNodes) = Len(call.coordinates)
        /\ Cardinality(NewElements) = 1
        /\ \A e \in DOMAIN call.preMesh[CallDimension] :
             mesh[CallDimension][e] = call.preMesh[CallDimension][e]
        /\ \A e \in NewElements :
             /\ Len(mesh[CallDimension][e].nodes) = Len(call.coordinates)
             /\ Range(mesh[CallDimension][e].nodes) = NewNodes
             /\ \A i \in 1..Len(call.coordinates) :
                  evaluateReal(nodes, mesh[CallDimension][e].nodes[i]).values
                     = call.coordinates[i]

C10_Witness ==
    /\ call.op = "createSquareElement"
    /\ DOMAIN call.pre = {1}
    /\ call.status = "returned"
    /\ \E e \in NewElements : mesh[2][e].nodes = <<0, 2, 3, 4>>

====
